---- MODULE Spec2Model ----
(***************************************************************************)
(* Model of the music recommendation service                              *)
(* (src/recommendations_service.py): the RecommendationService object     *)
(* with its four tables, load_data, the offline and online generators,    *)
(* the blender and the HTTP handlers /health, /recommend and /track.      *)
(*                                                                         *)
(* Conventions.                                                            *)
(*  - Python's None is the empty tuple and a present value x is <<x>>.    *)
(*  - A DataFrame is the sequence of its rows; the catalog (items_df),    *)
(*    whose track_id is a unique key, is the set of its track ids.        *)
(*  - Scores are floats in the code; here they are integers, the float    *)
(*    times 100 (0.9 is 90, a popularity count of 100 users is 10000).    *)
(*  - A string is the sequence of its characters.                         *)
(***************************************************************************)
EXTENDS Integers, Sequences, FiniteSets, TLC

VARIABLES s3, items_df, similar_df, personal_recs_df, top_popular_df,
          pc, load_result, response,
          bl_offline, bl_online, bl_limit, bl_out,
          on_similar, on_items, on_history, on_limit, on_out

vars == <<s3, items_df, similar_df, personal_recs_df, top_popular_df,
          pc, load_result, response,
          bl_offline, bl_online, bl_limit, bl_out,
          on_similar, on_items, on_history, on_limit, on_out>>

serviceVars == <<s3, items_df, similar_df, personal_recs_df, top_popular_df,
                 pc, load_result, response>>

blendVars == <<bl_offline, bl_online, bl_limit, bl_out>>

onlineVars == <<on_similar, on_items, on_history, on_limit, on_out>>

----------------------------------------------------------------------------
(* Python values and slices                                                *)

None == <<>>

Some(x) == <<x>>

Min(a, b) == IF a < b THEN a ELSE b

\* s[:n] for n >= 0
Take(s, n) == SubSeq(s, 1, Min(n, Len(s)))

\* s[n:] for n >= 0
Drop(s, n) == SubSeq(s, Min(n, Len(s)) + 1, Len(s))

\* s[-n:] for n > 0
LastN(s, n) == SubSeq(s, (IF Len(s) > n THEN Len(s) - n ELSE 0) + 1, Len(s))

----------------------------------------------------------------------------
(* Program constants                                                       *)

MinLimit == 1

MaxLimit == 100

HistoryWindow == 5

TopSimilar == 3

DefaultPersonalScore == 50

DefaultPopularUsers == 1

RandomScore == 10

----------------------------------------------------------------------------
(* Candidates (TrackRecommendation)                                        *)

TrackRecommendation(track_id, score, type, source, based_on_track) ==
    [track_id |-> track_id, score |-> score, type |-> type,
     source |-> source, based_on_track |-> based_on_track]

TrackIds(recs) == {recs[i].track_id : i \in 1..Len(recs)}

\* any(rec.track_id == t for rec in recs)
HasTrack(recs, t) == \E i \in 1..Len(recs) : recs[i].track_id = t

NoDuplicateTrackIds(recs) ==
    \A i, j \in 1..Len(recs) : recs[i].track_id = recs[j].track_id => i = j

----------------------------------------------------------------------------
(* RecommendationService.get_track_info                                    *)

get_track_info(items, track_id) ==
    IF items = None THEN None
    ELSE IF track_id \in items[1] THEN Some([track_id |-> track_id])
    ELSE None

----------------------------------------------------------------------------
(* RecommendationService.get_offline_recommendations                       *)

\* row.get('score', 0.5)
PersonalScore(row) == IF row.score = None THEN DefaultPersonalScore ELSE row.score[1]

\* row.get('users', 1)
PopularScore(row) ==
    (IF row.users = None THEN DefaultPopularUsers ELSE row.users[1]) * 100

\* Stage 1: the rows of the user, the first `limit` of them, in table order;
\* a row whose track does not resolve is skipped.
RECURSIVE PersonalLoop(_, _, _)
PersonalLoop(rows, items, recs) ==
    IF rows = <<>> THEN recs
    ELSE LET row == Head(rows) IN
         IF get_track_info(items, row.track_id) # None
         THEN PersonalLoop(Tail(rows), items,
                  Append(recs, TrackRecommendation(row.track_id, PersonalScore(row),
                                                   "personal_als", "offline", None)))
         ELSE PersonalLoop(Tail(rows), items, recs)

PersonalStage(personal, items, user_id, limit) ==
    IF personal # None
    THEN LET user_recs == Take(SelectSeq(personal[1], LAMBDA r : r.user_id = user_id), limit)
         IN  PersonalLoop(user_recs, items, <<>>)
    ELSE <<>>

\* Stage 2: the first `remaining` rows of the popularity table; a row is
\* skipped when its track does not resolve or is already accumulated.
RECURSIVE PopularLoop(_, _, _)
PopularLoop(rows, items, recs) ==
    IF rows = <<>> THEN recs
    ELSE LET row == Head(rows) IN
         IF get_track_info(items, row.track_id) # None /\ ~HasTrack(recs, row.track_id)
         THEN PopularLoop(Tail(rows), items,
                  Append(recs, TrackRecommendation(row.track_id, PopularScore(row),
                                                   "top_popular", "offline", None)))
         ELSE PopularLoop(Tail(rows), items, recs)

PopularStage(popular, items, limit, recs) ==
    IF Len(recs) < limit /\ popular # None
    THEN LET remaining == limit - Len(recs)
         IN  PopularLoop(Take(popular[1], remaining), items, recs)
    ELSE recs

\* Stage 3: the rows drawn by items_df.sample(n), in the order drawn; a
\* drawn track already accumulated is skipped.
RECURSIVE RandomLoop(_, _)
RandomLoop(random_tracks, recs) ==
    IF random_tracks = <<>> THEN recs
    ELSE LET t == Head(random_tracks) IN
         IF ~HasTrack(recs, t)
         THEN RandomLoop(Tail(random_tracks),
                  Append(recs, TrackRecommendation(t, RandomScore, "random", "offline", None)))
         ELSE RandomLoop(Tail(random_tracks), recs)

\* DataFrame.sample(n): every sequence of n distinct rows is a possible draw
RECURSIVE Samples(_, _)
Samples(S, n) ==
    IF n = 0 THEN {<<>>}
    ELSE UNION {{<<x>> \o s : s \in Samples(S \ {x}, n - 1)} : x \in S}

\* what stages 1 and 2 have accumulated when stage 3 is reached
BeforeRandom(personal, popular, items, user_id, limit) ==
    PopularStage(popular, items, limit, PersonalStage(personal, items, user_id, limit))

\* the draws items_df.sample can return in stage 3 (the empty draw when the
\* stage does not run)
RandomDraws(personal, popular, items, user_id, limit) ==
    LET recs == BeforeRandom(personal, popular, items, user_id, limit) IN
    IF Len(recs) < limit /\ items # None
    THEN Samples(items[1], Min(limit - Len(recs), Cardinality(items[1])))
    ELSE {<<>>}

RandomStage(items, limit, recs, draw) ==
    IF Len(recs) < limit /\ items # None
    THEN RandomLoop(draw, recs)
    ELSE recs

get_offline_recommendations(personal, popular, items, user_id, limit, draw) ==
    Take(RandomStage(items, limit,
                     BeforeRandom(personal, popular, items, user_id, limit), draw),
         limit)

----------------------------------------------------------------------------
(* RecommendationService.get_online_recommendations                        *)

\* the insertion that puts x in front of the pairs of equal key
RECURSIVE InsertDesc_before_equal(_, _)
InsertDesc_before_equal(sorted, x) ==
    IF sorted = <<>> THEN <<x>>
    ELSE IF Head(sorted)[1] > x[1]
         THEN <<Head(sorted)>> \o InsertDesc_before_equal(Tail(sorted), x)
         ELSE <<x>> \o sorted

\* Descending stable sort of <<key, value>> pairs: x is inserted behind every
\* pair whose key is at least x's, so inserting the pairs left to right keeps
\* pairs of equal key in their original order.
RECURSIVE InsertDesc(_, _)
InsertDesc(sorted, x) ==
    IF sorted = <<>> THEN <<x>>
    ELSE IF Head(sorted)[1] >= x[1]
         THEN <<Head(sorted)>> \o InsertDesc(Tail(sorted), x)
         ELSE <<x>> \o sorted

RECURSIVE SortPairsDesc(_, _)
SortPairsDesc(todo, done) ==
    IF todo = <<>> THEN done
    ELSE SortPairsDesc(Tail(todo), InsertDesc(done, Head(todo)))

\* sorted(seq, key=..., reverse=True), keys[i] being the key of seq[i]
SortDesc(seq, keys) ==
    LET pairs == [i \in 1..Len(seq) |-> <<keys[i], seq[i]>>]
        sorted == SortPairsDesc(pairs, <<>>)
    IN  [i \in 1..Len(seq) |-> sorted[i][2]]

\* similar_df[similar_df['track_id'] == track_id]
\*     .sort_values('similarity_score', ascending=False).head(3)
\* (on slices of fewer than 17 rows the sort keeps rows of equal score in
\* table order)
similar_tracks(similar, track_id) ==
    LET rows == SelectSeq(similar[1], LAMBDA r : r.track_id = track_id)
    IN  Take(SortDesc(rows, [i \in 1..Len(rows) |-> rows[i].similarity_score]),
             TopSimilar)

RECURSIVE SimilarLoop(_, _, _, _)
SimilarLoop(rows, items, seed, recs) ==
    IF rows = <<>> THEN recs
    ELSE LET similar_row == Head(rows) IN
         IF get_track_info(items, similar_row.similar_track_id) # None
         THEN SimilarLoop(Tail(rows), items, seed,
                  Append(recs, TrackRecommendation(similar_row.similar_track_id,
                                                   similar_row.similarity_score,
                                                   "similar_to_history", "online",
                                                   Some(seed))))
         ELSE SimilarLoop(Tail(rows), items, seed, recs)

RECURSIVE SeedLoop(_, _, _, _)
SeedLoop(recent_tracks, similar, items, recs) ==
    IF recent_tracks = <<>> THEN recs
    ELSE SeedLoop(Tail(recent_tracks), similar, items,
                  SimilarLoop(similar_tracks(similar, Head(recent_tracks)), items,
                              Head(recent_tracks), recs))

\* keep the first occurrence of every track_id
RECURSIVE Unique(_, _)
Unique(recs, unique_recs) ==
    IF recs = <<>> THEN unique_recs
    ELSE IF ~HasTrack(unique_recs, Head(recs).track_id)
         THEN Unique(Tail(recs), Append(unique_recs, Head(recs)))
         ELSE Unique(Tail(recs), unique_recs)

\* A similar_track_id that is missing in the parquet file is read as the
\* float nan; NaN stands for it (it is no track id, so it is in no catalog).
NaN == -1

\* int(similar_row['similar_track_id']) raises ValueError on nan: the try
\* body raises when a row it processes (a top row of a seed of the window)
\* has no similar_track_id
OnlineRaises(recent_tracks, similar) ==
    \E s \in 1..Len(recent_tracks) :
        LET rows == similar_tracks(similar, recent_tracks[s])
        IN  \E i \in 1..Len(rows) : rows[i].similar_track_id = NaN

\* what the try body returns when nothing in it raises
online_try_body(similar, items, user_history, limit) ==
    LET recent_tracks == LastN(user_history, HistoryWindow)
        recommendations == SeedLoop(recent_tracks, similar, items, <<>>)
        unique_recs == Unique(recommendations, <<>>)
    IN  Take(SortDesc(unique_recs, [i \in 1..Len(unique_recs) |-> unique_recs[i].score]),
             limit)

\* the generator without its final [:limit]
get_online_recommendations_untruncated(similar, items, user_history, limit) ==
    IF user_history = <<>> \/ similar = None THEN <<>>
    ELSE IF OnlineRaises(LastN(user_history, HistoryWindow), similar) THEN <<>>
    ELSE LET recent_tracks == LastN(user_history, HistoryWindow)
             recommendations == SeedLoop(recent_tracks, similar, items, <<>>)
             unique_recs == Unique(recommendations, <<>>)
         IN  SortDesc(unique_recs, [i \in 1..Len(unique_recs) |-> unique_recs[i].score])

\* the generator that reads the whole history instead of its last 5 entries
get_online_recommendations_whole_history(similar, items, user_history, limit) ==
    IF user_history = <<>> \/ similar = None THEN <<>>
    ELSE IF OnlineRaises(user_history, similar) THEN <<>>
    ELSE LET recommendations == SeedLoop(user_history, similar, items, <<>>)
             unique_recs == Unique(recommendations, <<>>)
         IN  Take(SortDesc(unique_recs,
                           [i \in 1..Len(unique_recs) |-> unique_recs[i].score]),
                  limit)

\* An exception anywhere in the try body ends the call with the empty list
\* (except Exception: return []).
get_online_recommendations(similar, items, user_history, limit) ==
    IF user_history = <<>> \/ similar = None THEN <<>>
    ELSE IF OnlineRaises(LastN(user_history, HistoryWindow), similar) THEN <<>>
    ELSE online_try_body(similar, items, user_history, limit)

----------------------------------------------------------------------------
(* RecommendationService.blend_recommendations                             *)

\* int(total_limit * 0.7) in IEEE double arithmetic: the product is the
\* exact 7*total_limit/10 rounded to a double, and for total_limit = 90 it
\* is 62.99999999999999, so int() gives 62; for every other total_limit in
\* 0..101 it is floor(7*total_limit/10).
offline_limit(total_limit) ==
    IF total_limit = 90 THEN 62 ELSE (7 * total_limit) \div 10

online_limit(total_limit) == total_limit - offline_limit(total_limit)

\* the online candidates among the first online_limit whose track is not in
\* the offline head (the set is computed once, before the loop)
OnlineFill(online_recs, total_limit, offline_track_ids) ==
    SelectSeq(Take(online_recs, online_limit(total_limit)),
              LAMBDA rec : rec.track_id \notin offline_track_ids)

\* the blender without its backfill step
Backfill_skipped(offline_recs, total_limit, blended) == blended

Backfill(offline_recs, total_limit, blended) ==
    IF Len(blended) < total_limit
    THEN LET remaining == total_limit - Len(blended)
             additional_offline ==
                 SelectSeq(Drop(offline_recs, offline_limit(total_limit)),
                           LAMBDA rec : rec.track_id \notin TrackIds(blended))
         IN  blended \o Take(additional_offline, remaining)
    ELSE blended

\* the blender that scans the whole online list and returns without truncating
blend_recommendations_unbounded(offline_recs, online_recs, total_limit) ==
    LET head == Take(offline_recs, offline_limit(total_limit))
        blended == head \o SelectSeq(online_recs,
                                     LAMBDA rec : rec.track_id \notin TrackIds(head))
    IN  Backfill(offline_recs, total_limit, blended)

\* the blender that sorts its result by score before returning it
blend_recommendations_resorted(offline_recs, online_recs, total_limit) ==
    LET head == Take(offline_recs, offline_limit(total_limit))
        blended == head \o OnlineFill(online_recs, total_limit, TrackIds(head))
        result == Take(Backfill(offline_recs, total_limit, blended), total_limit)
    IN  SortDesc(result, [i \in 1..Len(result) |-> result[i].score])

blend_recommendations(offline_recs, online_recs, total_limit) ==
    LET head == Take(offline_recs, offline_limit(total_limit))
        blended == head \o OnlineFill(online_recs, total_limit, TrackIds(head))
    IN  Take(Backfill(offline_recs, total_limit, blended), total_limit)

----------------------------------------------------------------------------
(* Parsing of the online_history query parameter                           *)

Digits == {"0", "1", "2", "3", "4", "5", "6", "7", "8", "9"}

DigitValue(c) ==
    CASE c = "0" -> 0 [] c = "1" -> 1 [] c = "2" -> 2 [] c = "3" -> 3
      [] c = "4" -> 4 [] c = "5" -> 5 [] c = "6" -> 6 [] c = "7" -> 7
      [] c = "8" -> 8 [] c = "9" -> 9

\* str.split(','): the pieces between the commas, empty pieces included
RECURSIVE SplitLoop(_, _, _)
SplitLoop(str, piece, pieces) ==
    IF str = <<>> THEN Append(pieces, piece)
    ELSE IF Head(str) = ","
         THEN SplitLoop(Tail(str), <<>>, Append(pieces, piece))
         ELSE SplitLoop(Tail(str), Append(piece, Head(str)), pieces)

Split(str) == SplitLoop(str, <<>>, <<>>)

\* str.strip()
RECURSIVE LStrip(_)
LStrip(str) ==
    IF str # <<>> /\ Head(str) = " " THEN LStrip(Tail(str)) ELSE str

RECURSIVE RStrip(_)
RStrip(str) ==
    IF str # <<>> /\ str[Len(str)] = " " THEN RStrip(SubSeq(str, 1, Len(str) - 1)) ELSE str

Strip(str) == RStrip(LStrip(str))

RECURSIVE DecimalValue(_, _)
DecimalValue(str, acc) ==
    IF str = <<>> THEN acc
    ELSE DecimalValue(Tail(str), 10 * acc + DigitValue(Head(str)))

\* int(x): the value of a non-empty string of decimal digits, None for the
\* ValueError raised on anything else
int(str) ==
    IF str # <<>> /\ \A i \in 1..Len(str) : str[i] \in Digits
    THEN Some(DecimalValue(str, 0))
    ELSE None

\* [int(x.strip()) for x in online_history.split(',')], None for ValueError
parse_history(online_history) ==
    LET pieces == Split(online_history)
        values == [i \in 1..Len(pieces) |-> int(Strip(pieces[i]))]
    IN  IF \E i \in 1..Len(values) : values[i] = None
        THEN None
        ELSE Some([i \in 1..Len(values) |-> values[i][1]])

----------------------------------------------------------------------------
(* RecommendationService.load_data                                         *)

\* _read_parquet_from_s3(key): the table under the key, None when the fetch
\* raises
read_parquet_from_s3(store, key) == store[key]

\* load_data that goes on to the other three files after the catalog failed
load_data_no_early_return(store) ==
    [items |-> read_parquet_from_s3(store, "items"),
     similar |-> read_parquet_from_s3(store, "similar"),
     personal |-> read_parquet_from_s3(store, "personal"),
     top_popular |-> read_parquet_from_s3(store, "top_popular"),
     result |-> read_parquet_from_s3(store, "items") # None]

\* The tables after load_data and its return value.  Before load_data every
\* table is None (__init__).
load_data(store) ==
    LET items == read_parquet_from_s3(store, "items") IN
    IF items = None
    THEN [items |-> None, similar |-> None, personal |-> None, top_popular |-> None,
          result |-> FALSE]
    ELSE [items |-> items,
          similar |-> read_parquet_from_s3(store, "similar"),
          personal |-> read_parquet_from_s3(store, "personal"),
          top_popular |-> read_parquet_from_s3(store, "top_popular"),
          result |-> TRUE]

----------------------------------------------------------------------------
(* GET /health                                                             *)

\* health that wants both the personal and the popularity table
health_requires_both(items, personal, popular) ==
    LET data_status == items # None /\ (personal # None /\ popular # None)
    IN  [status |-> IF data_status THEN "healthy" ELSE "degraded",
         data_loaded |-> data_status]

health(items, personal, popular) ==
    LET data_status == items # None /\ (personal # None \/ popular # None)
    IN  [status |-> IF data_status THEN "healthy" ELSE "degraded",
         data_loaded |-> data_status]

----------------------------------------------------------------------------
(* GET /recommend/{user_id}                                                *)

\* limit < 0 or limit > 100
limit_invalid_accepts_zero(limit) == limit < MinLimit - 1 \/ limit > MaxLimit

\* limit <= 1 or limit > 100
limit_invalid_rejects_one(limit) == limit <= MinLimit \/ limit > MaxLimit

\* limit <= 0 or limit > 100
limit_invalid(limit) == limit < MinLimit \/ limit > MaxLimit

\* `if online_history:` is false for None and for the empty string
history_given(online_history) == online_history # None /\ online_history[1] # <<>>

\* user_online_history, None when the handler raises the 400 of a ValueError
user_online_history(online_history) ==
    IF history_given(online_history) THEN parse_history(online_history[1]) ELSE Some(<<>>)

BadRequest(request, detail) ==
    [endpoint |-> "recommend", status |-> 400, request |-> request, calls |-> {},
     detail |-> detail, offline_recs |-> <<>>, online_recs |-> <<>>,
     recommendations |-> <<>>, statistics |-> None]

\* The responses the handler can give: one when the request is rejected,
\* otherwise one for every draw the random stage of the offline generator
\* can make.
get_recommendations(items, similar, personal, popular, user_id, limit, online_history) ==
    LET request == [user_id |-> user_id, limit |-> limit, online_history |-> online_history]
        history == user_online_history(online_history)
    IN
    IF limit_invalid(limit)
    THEN {BadRequest(request, "Limit must be between 1 and 100")}
    ELSE IF history = None
    THEN {BadRequest(request, "Invalid online_history format")}
    ELSE
    LET online_recs == get_online_recommendations(similar, items, history[1], limit)
        Response(offline_recs) ==
            LET final_recommendations ==
                    blend_recommendations(offline_recs, online_recs, limit)
            IN  [endpoint |-> "recommend", status |-> 200, request |-> request,
                 calls |-> {"get_offline_recommendations", "get_online_recommendations",
                            "blend_recommendations"},
                 detail |-> "",
                 offline_recs |-> offline_recs, online_recs |-> online_recs,
                 recommendations |-> final_recommendations,
                 statistics |->
                     Some([total_recommendations |-> Len(final_recommendations),
                           offline_count |-> Len(offline_recs),
                           online_count |-> Len(online_recs),
                           user_id |-> user_id,
                           online_history_provided |-> Len(history[1]) > 0])]
    IN  {Response(get_offline_recommendations(personal, popular, items, user_id, limit, draw)) :
            draw \in RandomDraws(personal, popular, items, user_id, limit)}

----------------------------------------------------------------------------
(* GET /track/{track_id}                                                   *)

track_endpoint(items, track_id) ==
    LET track_info == get_track_info(items, track_id) IN
    IF track_info = None
    THEN [endpoint |-> "track", status |-> 404, request |-> track_id, body |-> None]
    ELSE [endpoint |-> "track", status |-> 200, request |-> track_id, body |-> track_info]

----------------------------------------------------------------------------
(* Bounds and the data the model is run on                                 *)

MaxHistLen == 3

MaxBlendLen == 3

MaxBlendTrack == 3

HistoryChars == {"1", "2", ",", " "}

Strings(n) == UNION {[1..k -> HistoryChars] : k \in 0..n}

Histories == {None} \cup {Some(str) : str \in Strings(MaxHistLen)}

Limits == {0, 1, 3, 100, 101}

Users == {5, 6}

QueriedTracks == {1, 4, 9}

PersonalRow(user_id, track_id, score) ==
    [user_id |-> user_id, track_id |-> track_id, score |-> score]

PopularRow(track_id, users) == [track_id |-> track_id, users |-> users]

SimilarRow(track_id, similar_track_id, similarity_score) ==
    [track_id |-> track_id, similar_track_id |-> similar_track_id,
     similarity_score |-> similarity_score]

\* Three snapshots of the four parquet files.
\* DatasetA: a three-track catalog, one personal row, one popularity row.
\* DatasetB: a six-track catalog; the personal table repeats a row, has a row
\*           of an unknown track and a row without score; the popularity table
\*           has a row without users and a row of an unknown track; the two
\*           seeds of the similarity table have disjoint neighbours.
\* DatasetC: an empty catalog.
DatasetA ==
    [items |-> 1..3,
     similar |-> <<SimilarRow(1, 2, 80), SimilarRow(1, 3, 80), SimilarRow(2, 3, 90),
                   SimilarRow(2, 9, 85), SimilarRow(2, 1, 80)>>,
     personal |-> <<PersonalRow(5, 1, Some(90))>>,
     top_popular |-> <<PopularRow(2, Some(100))>>]

DatasetB ==
    [items |-> 1..6,
     similar |-> <<SimilarRow(1, 2, 80), SimilarRow(1, 3, 95), SimilarRow(1, 4, 50),
                   SimilarRow(1, 5, 40), SimilarRow(2, 1, 70), SimilarRow(2, 5, 60),
                   SimilarRow(2, 6, 30)>>,
     personal |-> <<PersonalRow(5, 1, Some(90)), PersonalRow(5, 9, Some(70)),
                    PersonalRow(5, 1, Some(90)), PersonalRow(5, 2, None)>>,
     top_popular |-> <<PopularRow(1, Some(300)), PopularRow(2, None),
                       PopularRow(9, Some(200)), PopularRow(3, Some(100))>>]

DatasetC ==
    [items |-> {},
     similar |-> <<SimilarRow(1, 2, 80)>>,
     personal |-> <<PersonalRow(5, 1, Some(90))>>,
     top_popular |-> <<PopularRow(2, Some(100))>>]

Datasets == {DatasetA, DatasetB, DatasetC}

TableKeys == {"items", "similar", "personal", "top_popular"}

\* what the object store can hold: a snapshot, of which any files may be
\* missing or unreadable (None)
Stores ==
    {[k \in TableKeys |-> IF k \in readable THEN Some(d[k]) ELSE None] :
        d \in Datasets, readable \in SUBSET TableKeys}

BlendOfflineCandidate(t) == TrackRecommendation(t, 50, "personal_als", "offline", None)

BlendOnlineCandidate(t) == TrackRecommendation(t, 80, "similar_to_history", "online", Some(9))

ListsOver(S, n) == UNION {[1..k -> S] : k \in 0..n}

\* ten offline candidates o1..o10 and three online candidates n1..n3, all of
\* different tracks
ExampleOffline == [i \in 1..10 |-> BlendOfflineCandidate(10 + i)]

ExampleOnline == [i \in 1..3 |-> BlendOnlineCandidate(20 + i)]

\* an online list longer than any online quota of a limit up to 90
LongOnline == [i \in 1..28 |-> BlendOnlineCandidate(100 + i)]

BlendOfflineLists ==
    ListsOver({BlendOfflineCandidate(t) : t \in 1..MaxBlendTrack}, MaxBlendLen)
        \cup {ExampleOffline}

BlendOnlineLists ==
    ListsOver({BlendOnlineCandidate(t) : t \in 1..MaxBlendTrack}, MaxBlendLen)
        \cup {ExampleOnline, LongOnline}

BlendLimits == {1, 2, 3, 4, 5, 10, 90, 100}

MaxSimRows == 4

MaxOnlineHist == 6

\* Similarity rows of two seeds: two rows of seed 1 with different
\* neighbours and scores, a row of seed 2 that ties with a row of seed 1, and
\* a row of seed 2 without similar_track_id.  A table may repeat a row.
OnlineRows ==
    {SimilarRow(1, 3, 2), SimilarRow(1, 4, 1), SimilarRow(2, 4, 2), SimilarRow(2, NaN, 1)}

\* the pairs of seed 10 with the scores 0.8, 0.95 and 0.5, and a catalog that
\* holds their neighbours
ExampleSimilar == <<SimilarRow(10, 20, 80), SimilarRow(10, 21, 95), SimilarRow(10, 22, 50)>>

ExampleCatalog == {20, 21, 22}

OnlineTables == ListsOver(OnlineRows, MaxSimRows)

OnlineSeeds == {1, 2}

OnlineHistories == ListsOver(OnlineSeeds, MaxOnlineHist)

OnlineCatalog == {3, 4}

OnlineLimits == {1, 5}

----------------------------------------------------------------------------
(* The service: startup, then requests                                     *)

NoResponse == [endpoint |-> "none"]

Init ==
    /\ s3 \in Stores
    /\ items_df = None
    /\ similar_df = None
    /\ personal_recs_df = None
    /\ top_popular_df = None
    /\ pc = "startup"
    /\ load_result = FALSE
    /\ response = NoResponse
    /\ bl_offline = <<>>
    /\ bl_online = <<>>
    /\ bl_limit = 1
    /\ bl_out = None
    /\ on_similar = None
    /\ on_items = None
    /\ on_history = <<>>
    /\ on_limit = 1
    /\ on_out = None

\* startup_event: load_data runs once, before any request is served
Startup ==
    /\ pc = "startup"
    /\ LET loaded == load_data(s3) IN
        /\ items_df' = loaded.items
        /\ similar_df' = loaded.similar
        /\ personal_recs_df' = loaded.personal
        /\ top_popular_df' = loaded.top_popular
        /\ load_result' = loaded.result
    /\ pc' = "serving"
    /\ UNCHANGED <<s3, response>>
    /\ UNCHANGED blendVars
    /\ UNCHANGED onlineVars

Health ==
    /\ pc = "serving"
    /\ response' = [endpoint |-> "health", status |-> 200,
                    body |-> health(items_df, personal_recs_df, top_popular_df)]
    /\ pc' = "responding"
    /\ UNCHANGED <<s3, items_df, similar_df, personal_recs_df, top_popular_df,
                   load_result>>
    /\ UNCHANGED blendVars
    /\ UNCHANGED onlineVars

\* a handler that stores the slice of the popularity table it has taken back
\* into the service
Recommend_truncating_popular ==
    /\ pc = "serving"
    /\ \E user_id \in Users, limit \in Limits, online_history \in Histories :
         /\ response' \in get_recommendations(items_df, similar_df, personal_recs_df,
                                              top_popular_df, user_id, limit, online_history)
         /\ top_popular_df' = IF top_popular_df = None \/ limit_invalid(limit)
                              THEN top_popular_df
                              ELSE Some(Take(top_popular_df[1], limit))
    /\ pc' = "responding"
    /\ UNCHANGED <<s3, items_df, similar_df, personal_recs_df, load_result>>
    /\ UNCHANGED blendVars
    /\ UNCHANGED onlineVars

Recommend ==
    /\ pc = "serving"
    /\ \E user_id \in Users, limit \in Limits, online_history \in Histories :
         response' \in get_recommendations(items_df, similar_df, personal_recs_df,
                                           top_popular_df, user_id, limit, online_history)
    /\ pc' = "responding"
    /\ UNCHANGED <<s3, items_df, similar_df, personal_recs_df, top_popular_df,
                   load_result>>
    /\ UNCHANGED blendVars
    /\ UNCHANGED onlineVars

TrackInfo ==
    /\ pc = "serving"
    /\ \E track_id \in QueriedTracks :
         response' = track_endpoint(items_df, track_id)
    /\ pc' = "responding"
    /\ UNCHANGED <<s3, items_df, similar_df, personal_recs_df, top_popular_df,
                   load_result>>
    /\ UNCHANGED blendVars
    /\ UNCHANGED onlineVars

\* the response leaves the server, which waits for the next request
Respond ==
    /\ pc = "responding"
    /\ response' = NoResponse
    /\ pc' = "serving"
    /\ UNCHANGED <<s3, items_df, similar_df, personal_recs_df, top_popular_df,
                   load_result>>
    /\ UNCHANGED blendVars
    /\ UNCHANGED onlineVars

Next == Startup \/ Health \/ Recommend \/ TrackInfo \/ Respond

Spec == Init /\ [][Next]_vars

----------------------------------------------------------------------------
(* The blender as a function of arbitrary candidate lists                  *)

InitBlend ==
    /\ s3 = [items |-> None, similar |-> None, personal |-> None, top_popular |-> None]
    /\ items_df = None
    /\ similar_df = None
    /\ personal_recs_df = None
    /\ top_popular_df = None
    /\ pc = "blend"
    /\ load_result = FALSE
    /\ response = NoResponse
    /\ bl_offline \in BlendOfflineLists
    /\ bl_online \in BlendOnlineLists
    /\ bl_limit \in BlendLimits
    /\ bl_out = None
    /\ on_similar = None
    /\ on_items = None
    /\ on_history = <<>>
    /\ on_limit = 1
    /\ on_out = None

BlendCall ==
    /\ bl_out = None
    /\ bl_out' = Some(blend_recommendations(bl_offline, bl_online, bl_limit))
    /\ UNCHANGED <<bl_offline, bl_online, bl_limit>>
    /\ UNCHANGED serviceVars
    /\ UNCHANGED onlineVars

\* the caller takes the result; the inputs stay as they were given
BlendReturn ==
    /\ bl_out # None
    /\ bl_out' = None
    /\ UNCHANGED <<bl_offline, bl_online, bl_limit>>
    /\ UNCHANGED serviceVars
    /\ UNCHANGED onlineVars

NextBlend == BlendCall \/ BlendReturn

SpecBlend == InitBlend /\ [][NextBlend]_vars

----------------------------------------------------------------------------
(* Properties of the blender (SpecBlend)                                   *)

BlendReturned == bl_out # None

\* C1: for every offline list, every online list and every total_limit in
\* 1..100, the list blend_recommendations returns holds no two candidates
\* with the same track_id.
C1_BlendNoDuplicateTrackIds ==
    BlendReturned => NoDuplicateTrackIds(bl_out[1])

\* C10: for every total_limit in 1..100 and all input lists, the list
\* blend_recommendations returns is at most total_limit long and at most
\* len(offline) + len(online) long.
C10_BlendLengthBounded ==
    BlendReturned =>
        /\ Len(bl_out[1]) <= bl_limit
        /\ Len(bl_out[1]) <= Len(bl_offline) + Len(bl_online)

\* C10 witness: the blender returned exactly total_limit candidates from
\* inputs that together hold more, and in another call would return all of
\* its input; here the first, where the limit is what bounds the result.
C10_Witness ==
    /\ BlendReturned
    /\ Len(bl_out[1]) = bl_limit
    /\ Len(bl_offline) + Len(bl_online) > bl_limit
    /\ Len(bl_online) > online_limit(bl_limit)

\* floor(total_limit * 0.7), in exact arithmetic
FloorSeventy(total_limit) == (7 * total_limit) \div 10

OnlineIndices(recs) == {i \in 1..Len(recs) : recs[i].source = "online"}

\* the candidates of the result in front of its first online candidate
HeadLength(recs) ==
    IF OnlineIndices(recs) = {} THEN Len(recs)
    ELSE (CHOOSE i \in OnlineIndices(recs) : \A j \in OnlineIndices(recs) : i <= j) - 1

\* C11: the offline head (the candidates taken before any online candidate)
\* has at most floor(total_limit*0.7) elements and the result holds at most
\* total_limit - floor(total_limit*0.7) online candidates, for every
\* total_limit in 1..100.
C11_QuotasRespected ==
    BlendReturned =>
        /\ OnlineIndices(bl_out[1]) # {} => HeadLength(bl_out[1]) <= FloorSeventy(bl_limit)
        /\ Cardinality(OnlineIndices(bl_out[1])) <= bl_limit - FloorSeventy(bl_limit)

\* the tracks of the online list that are not in the offline head
AbsentFromHead(offline_recs, online_recs, total_limit) ==
    TrackIds(online_recs) \ TrackIds(Take(offline_recs, offline_limit(total_limit)))

\* C15: an online candidate that duplicates the offline head does not consume
\* quota: if the online list holds at least online_quota candidates absent
\* from the offline head, exactly online_quota online candidates are appended.
C15_DuplicatesDoNotConsumeQuota ==
    (/\ BlendReturned
     /\ Cardinality(AbsentFromHead(bl_offline, bl_online, bl_limit))
            >= online_limit(bl_limit))
    => Cardinality(OnlineIndices(bl_out[1])) = online_limit(bl_limit)

\* a is b with some elements left out
RECURSIVE IsSubsequence(_, _)
IsSubsequence(a, b) ==
    IF a = <<>> THEN TRUE
    ELSE IF b = <<>> THEN FALSE
    ELSE IF Head(a) = Head(b) THEN IsSubsequence(Tail(a), Tail(b))
    ELSE IsSubsequence(a, Tail(b))

\* C18: the result is, in this order and without re-sorting, the first
\* offline_quota offline candidates in their order, then online candidates in
\* their order, then offline candidates from beyond offline_quota in their
\* order; 10 distinct offline candidates, 3 distinct online candidates not
\* among them and total_limit = 10 give [o1..o7, n1, n2, n3].
C18_HeadThenOnlineThenBackfill ==
    BlendReturned =>
        LET out == bl_out[1]
            quota == offline_limit(bl_limit)
            head == Take(bl_offline, quota)
            rest == Drop(out, Len(head))
            k == Cardinality(OnlineIndices(rest))
        IN  /\ Take(out, Len(head)) = head
            /\ \A i \in 1..Len(rest) : (rest[i].source = "online") <=> (i <= k)
            /\ IsSubsequence(Take(rest, k), bl_online)
            /\ IsSubsequence(Drop(rest, k), Drop(bl_offline, quota))
            /\ (bl_offline = ExampleOffline /\ bl_online = ExampleOnline /\ bl_limit = 10)
                   => out = Take(ExampleOffline, 7) \o ExampleOnline

\* C18 witness: the blender returned the example's [o1..o7, n1, n2, n3].
C18_Witness ==
    /\ BlendReturned
    /\ bl_offline = ExampleOffline
    /\ bl_online = ExampleOnline
    /\ bl_limit = 10
    /\ bl_out[1] = Take(ExampleOffline, 7) \o ExampleOnline

----------------------------------------------------------------------------
(* Properties of the service (Spec)                                        *)

Recommended == response.endpoint = "recommend" /\ response.status = 200

\* the rows of the personal table that belong to the user
UserRows(user_id) ==
    IF personal_recs_df = None THEN <<>>
    ELSE SelectSeq(personal_recs_df[1], LAMBDA r : r.user_id = user_id)

\* C2: for every user_id, limit and content of the personal, popularity and
\* catalog tables, get_offline_recommendations returns at most limit
\* candidates and no two of them share a track_id.
C2_OfflineAtMostLimitNoDuplicates ==
    Recommended =>
        /\ Len(response.offline_recs) <= response.request.limit
        /\ NoDuplicateTrackIds(response.offline_recs)

ExampleLoaded ==
    /\ items_df = Some(1..3)
    /\ personal_recs_df = Some(<<PersonalRow(5, 1, Some(90))>>)
    /\ top_popular_df = Some(<<PopularRow(2, Some(100))>>)

\* C3: with catalog {1,2,3}, the personal row (5, 1, 0.9) and the popularity
\* row (2, 100), get_offline_recommendations(5, 3) returns, whatever the
\* random draw, exactly track 1 (personal), track 2 (popular), track 3 (random).
C3_ExampleReturnsThreeCandidates ==
    (/\ ExampleLoaded
     /\ Recommended
     /\ response.request.user_id = 5
     /\ response.request.limit = 3)
    => response.offline_recs =
           << TrackRecommendation(1, 90, "personal_als", "offline", None),
              TrackRecommendation(2, 10000, "top_popular", "offline", None),
              TrackRecommendation(3, RandomScore, "random", "offline", None) >>

\* C4 as stated: whatever the outer limit, the online generator produces at
\* most 5 candidates (statistics.online_count <= 5).
C4_OnlineCountAtMostFive ==
    Recommended => response.statistics[1].online_count <= 5

\* C4 amended: the online generator is invoked with the outer limit, so the
\* number of online candidates is at most the request's limit.
C4_OnlineCountAtMostLimit ==
    Recommended =>
        /\ response.statistics[1].online_count = Len(response.online_recs)
        /\ response.statistics[1].online_count <= response.request.limit

\* C4 witness: a request with a large limit got more than 5 online candidates.
C4_Witness ==
    /\ Recommended
    /\ response.statistics[1].online_count > 5
    /\ response.request.limit > 5

Loaded == pc # "startup"

OtherKeys == {"similar", "personal", "top_popular"}

Table(k) ==
    CASE k = "items" -> items_df
      [] k = "similar" -> similar_df
      [] k = "personal" -> personal_recs_df
      [] k = "top_popular" -> top_popular_df

HealthDegradedCondition ==
    items_df = None \/ (personal_recs_df = None /\ top_popular_df = None)

\* C6: after startup GET /health answers "degraded" with data_loaded=false
\* exactly when the catalog is absent or both the personal and the
\* popularity table are absent, and "healthy" with data_loaded=true otherwise.
C6_HealthDegradedExactlyWhen ==
    response.endpoint = "health" =>
        IF HealthDegradedCondition
        THEN response.body.status = "degraded" /\ response.body.data_loaded = FALSE
        ELSE response.body.status = "healthy" /\ response.body.data_loaded = TRUE

\* C6 witness: health answered healthy with the catalog and only one of the
\* personal and popularity tables present.
C6_Witness ==
    /\ response.endpoint = "health"
    /\ items_df # None
    /\ personal_recs_df = None
    /\ top_popular_df # None
    /\ response.body.status = "healthy"

\* the entries of the history string, as split at the commas
HistoryEntries(online_history) ==
    IF online_history = None \/ online_history[1] = <<>> THEN <<>>
    ELSE Split(online_history[1])

\* an entry is an integer when, blanks around it removed, it is a non-empty
\* string of digits
IsIntegerEntry(entry) ==
    LET e == Strip(entry) IN e # <<>> /\ \A i \in 1..Len(e) : e[i] \in Digits

MalformedHistory(online_history) ==
    \E i \in 1..Len(HistoryEntries(online_history)) :
        ~IsIntegerEntry(HistoryEntries(online_history)[i])

LimitOutOfRange(limit) == limit < 1 \/ limit > 100

\* C7: a recommendation request whose limit is outside [1,100] or whose
\* history has an entry that is not an integer is answered 400 and no
\* generator and no blender is invoked; a request with a limit in [1,100]
\* and a well-formed or missing history is never answered 400.
C7_ValidationErrors ==
    response.endpoint = "recommend" =>
        LET invalid == \/ LimitOutOfRange(response.request.limit)
                       \/ MalformedHistory(response.request.online_history)
        IN  /\ invalid => response.status = 400 /\ response.calls = {}
            /\ ~invalid => response.status # 400

\* C7 witness: a request with a limit in range was rejected for its history.
C7_Witness ==
    /\ response.endpoint = "recommend"
    /\ response.status = 400
    /\ ~LimitOutOfRange(response.request.limit)
    /\ MalformedHistory(response.request.online_history)
    /\ response.calls = {}

\* C8: whatever tables are present, a recommendation request with a valid
\* limit and history is answered successfully, and with the catalog absent
\* the offline generator returns the empty sequence.
C8_DegradedTablesNeverAnError ==
    (/\ response.endpoint = "recommend"
     /\ ~LimitOutOfRange(response.request.limit)
     /\ ~MalformedHistory(response.request.online_history))
    => /\ response.status = 200
       /\ items_df = None => response.offline_recs = <<>>

\* C8 witness: a valid request with a history was answered 200 by a service
\* whose catalog is absent, and the offline generator returned nothing.
C8_Witness ==
    /\ Recommended
    /\ items_df = None
    /\ response.request.online_history # None
    /\ response.request.online_history[1] # <<>>
    /\ response.offline_recs = <<>>

\* C9: with a loaded, non-empty catalog, a valid request for a user without
\* rows in the personal table and without online history gets a non-empty
\* recommendation list, whether or not the popularity table is present.
C9_ColdUserGetsRecommendations ==
    (/\ Recommended
     /\ items_df # None
     /\ items_df[1] # {}
     /\ UserRows(response.request.user_id) = <<>>
     /\ HistoryEntries(response.request.online_history) = <<>>)
    => response.recommendations # <<>>

\* C9 witness: such a user, with the popularity table absent and limit 1,
\* got a recommendation (a random track, through the blender's backfill).
C9_Witness ==
    /\ Recommended
    /\ items_df # None
    /\ items_df[1] # {}
    /\ top_popular_df = None
    /\ UserRows(response.request.user_id) = <<>>
    /\ HistoryEntries(response.request.online_history) = <<>>
    /\ response.request.limit = 1
    /\ Len(response.recommendations) = 1
    /\ response.recommendations[1].type = "random"

\* what the personal stage accumulates for the request just answered
PersonalOfRequest ==
    PersonalStage(personal_recs_df, items_df, response.request.user_id,
                  response.request.limit)

\* the tracks of the popularity table that resolve in the catalog and are not
\* accumulated by the personal stage
PopularAvailable ==
    {t \in {top_popular_df[1][i].track_id : i \in 1..Len(top_popular_df[1])} :
        get_track_info(items_df, t) # None /\ ~HasTrack(PersonalOfRequest, t)}

\* C16: the popularity stage walks the table in order, skipping accumulated
\* tracks, until the remaining need is met or the table is exhausted; hence
\* when the table holds at least that many resolvable tracks not yet
\* accumulated, the output has no candidate of the random stage.
C16_PopularityFillsRemainingNeed ==
    (/\ Recommended
     /\ top_popular_df # None
     /\ Len(PersonalOfRequest) < response.request.limit
     /\ Cardinality(PopularAvailable) >= response.request.limit - Len(PersonalOfRequest))
    => \A i \in 1..Len(response.offline_recs) : response.offline_recs[i].type # "random"

Tables == <<items_df, similar_df, personal_recs_df, top_popular_df>>

\* C14: handling a recommendation, track-info or health request leaves the
\* four loaded tables unchanged, so in any interleaving of requests after the
\* load every request sees the tables as they were when the load finished.
C14_RequestsLeaveTablesUnchanged ==
    [][pc # "startup" => Tables' = Tables]_vars

\* C14 witness: a recommendation that used all four tables has been answered
\* and the tables are those the load produced.
C14_Witness ==
    /\ Recommended
    /\ \A k \in TableKeys : Table(k) # None
    /\ response.online_recs # <<>>
    /\ response.offline_recs # <<>>
    /\ \A k \in TableKeys : Table(k) = s3[k]

----------------------------------------------------------------------------
(* The online generator as a function of the similarity table and history  *)

InitOnline ==
    /\ s3 = [items |-> None, similar |-> None, personal |-> None, top_popular |-> None]
    /\ items_df = None
    /\ similar_df = None
    /\ personal_recs_df = None
    /\ top_popular_df = None
    /\ pc = "online"
    /\ load_result = FALSE
    /\ response = NoResponse
    /\ bl_offline = <<>>
    /\ bl_online = <<>>
    /\ bl_limit = 1
    /\ bl_out = None
    /\ \/ /\ on_similar \in {Some(t) : t \in OnlineTables}
          /\ on_items = Some(OnlineCatalog)
          /\ on_history \in OnlineHistories
          /\ on_limit \in OnlineLimits
       \/ /\ on_similar = Some(ExampleSimilar)
          /\ on_items = Some(ExampleCatalog)
          /\ on_history = <<10>>
          /\ on_limit = 5
    /\ on_out = None

OnlineCall ==
    /\ on_out = None
    /\ on_out' = Some(get_online_recommendations(on_similar, on_items, on_history, on_limit))
    /\ UNCHANGED <<on_similar, on_items, on_history, on_limit>>
    /\ UNCHANGED serviceVars
    /\ UNCHANGED blendVars

\* the caller takes the result; the inputs stay as they were given
OnlineReturn ==
    /\ on_out # None
    /\ on_out' = None
    /\ UNCHANGED <<on_similar, on_items, on_history, on_limit>>
    /\ UNCHANGED serviceVars
    /\ UNCHANGED blendVars

NextOnline == OnlineCall \/ OnlineReturn

SpecOnline == InitOnline /\ [][NextOnline]_vars

----------------------------------------------------------------------------
(* Properties of the online generator (SpecOnline)                         *)

OnlineReturned == on_out # None

\* the last 5 entries of the history
Window == SubSeq(on_history, IF Len(on_history) > 5 THEN Len(on_history) - 4 ELSE 1,
                 Len(on_history))

\* the place in the window where the seed of a candidate is first met
SeedPosition(rec) ==
    CHOOSE i \in 1..Len(Window) :
        /\ Window[i] = rec.based_on_track[1]
        /\ \A j \in 1..(i - 1) : Window[j] # rec.based_on_track[1]

\* C12: the output of get_online_recommendations is sorted by score in
\* descending order, and candidates of equal score are in the order in which
\* they were first encountered (seed order within the history window); the
\* pairs (10,20,0.8), (10,21,0.95), (10,22,0.5) and the history [10] give the
\* tracks 21, 20, 22.
C12_OnlineSortedStable ==
    OnlineReturned =>
        /\ \A i, j \in 1..Len(on_out[1]) :
              i < j =>
                  /\ on_out[1][i].score >= on_out[1][j].score
                  /\ on_out[1][i].score = on_out[1][j].score
                         => SeedPosition(on_out[1][i]) <= SeedPosition(on_out[1][j])
        /\ (on_similar = Some(ExampleSimilar) /\ on_history = <<10>>)
               => on_out[1] =
                      << TrackRecommendation(21, 95, "similar_to_history", "online", Some(10)),
                         TrackRecommendation(20, 80, "similar_to_history", "online", Some(10)),
                         TrackRecommendation(22, 50, "similar_to_history", "online", Some(10)) >>

\* C12 witness: two candidates of equal score, found from different seeds,
\* were returned in the order of their seeds.
C12_Witness ==
    /\ OnlineReturned
    /\ \E i, j \in 1..Len(on_out[1]) :
          /\ i < j
          /\ on_out[1][i].score = on_out[1][j].score
          /\ SeedPosition(on_out[1][i]) < SeedPosition(on_out[1][j])

\* the rows of a seed in the similarity table
RowsOfSeed(seed) == SelectSeq(on_similar[1], LAMBDA r : r.track_id = seed)

\* a candidate comes from one of the 3 highest-similarity pairs of its seed:
\* a row of the seed names its track with its score, and fewer than 3 rows of
\* the seed have a higher score
FromTopThree(rec) ==
    LET rows == RowsOfSeed(rec.based_on_track[1]) IN
    \E i \in 1..Len(rows) :
        /\ rows[i].similar_track_id = rec.track_id
        /\ rows[i].similarity_score = rec.score
        /\ Cardinality({k \in 1..Len(rows) :
                           rows[k].similarity_score > rows[i].similarity_score}) < 3

\* C13: every candidate returned has a based_on_track among the last 5
\* entries of the history and a track_id among the 3 highest-similarity pairs
\* of that seed; entries before the last 5 never influence the output; the
\* output has at most min(limit, 15) candidates.
C13_WindowAndTopThree ==
    OnlineReturned =>
        /\ \A i \in 1..Len(on_out[1]) :
              /\ on_out[1][i].based_on_track # None
              /\ \E w \in 1..Len(Window) : Window[w] = on_out[1][i].based_on_track[1]
              /\ FromTopThree(on_out[1][i])
        /\ on_out[1] = get_online_recommendations(on_similar, on_items, Window, on_limit)
        /\ Len(on_out[1]) <= Min(on_limit, 15)

\* C13 witness: the history is longer than 5, its first entry is a seed that
\* has rows with a neighbour in the catalog and is not in the window, and
\* candidates were returned.
C13_Witness ==
    /\ OnlineReturned
    /\ Len(on_history) > 5
    /\ \A w \in 1..Len(Window) : Window[w] # on_history[1]
    /\ \E i \in 1..Len(RowsOfSeed(on_history[1])) :
          RowsOfSeed(on_history[1])[i].similar_track_id \in OnlineCatalog
    /\ on_out[1] # <<>>

\* a pair the generator processes fails: a top row of a seed of the window
\* has no similar_track_id
FailureOccurs == OnlineRaises(Window, on_similar)

\* C17: when a failure occurs while some seed or pair is processed, the call
\* returns the candidates assembled from the other seeds and pairs,
\* deduplicated, sorted and truncated, not an unconditionally empty list.
\* (The failing pair names no track of the catalog, so the try body run
\* without the exception skips it and assembles the others.)
C17_FailureKeepsOtherCandidates ==
    (OnlineReturned /\ FailureOccurs)
    => on_out[1] = online_try_body(on_similar, on_items, on_history, on_limit)

====
